---------------------------- MODULE Spec2Model ----------------------------
(***************************************************************************)
(* SeeGreek: the Black-Scholes-Merton pricing engine                       *)
(* (src/SeeGreek/options_calculator.py) and the Streamlit script that      *)
(* drives it (src/SeeGreek/app.py).                                        *)
(*                                                                         *)
(* Numbers.  The program computes in IEEE doubles.  Here every real is an  *)
(* integer count of 1/Scale (four decimal digits): 100.0 is 1000000, 0.01  *)
(* is 100.  The product and the quotient of two such numbers are rounded   *)
(* down to the grid, as a double operation is rounded to the nearest       *)
(* double, so results that the clamp, the sign and the branch decide are   *)
(* exact and results of the closed-form formulas carry a rounding error of *)
(* a few grid units.  The library functions the engine calls (np.log,      *)
(* np.exp, np.sqrt, norm.cdf, norm.pdf) are computed on the grid by        *)
(* series; norm.cdf is reflected about 0 as scipy's ndtr is.               *)
(*                                                                         *)
(* Two specifications: Spec calls the three engine functions on inputs     *)
(* drawn from bounded sets (the expired branch and unrecognised option     *)
(* types included); AppSpec is one run of the Streamlit script, sample by  *)
(* sample, on inputs the widgets allow.                                    *)
(***************************************************************************)
EXTENDS Integers, Sequences, FiniteSets, TLC

\* One real unit on the fixed-point grid.
Scale == 10^4

Abs(x) == IF x < 0 THEN -x ELSE x

\* Python's max(a, b) / min(a, b) on two numbers.
Max(a, b) == IF a >= b THEN a ELSE b
Min(a, b) == IF a <= b THEN a ELSE b

\* a * b on the grid, rounded down; split so that no intermediate product
\* leaves 32 bits.
MulFix(a, b) ==
    LET a1 == a \div Scale
        a0 == a % Scale
        b1 == b \div Scale
        b0 == b % Scale
    IN  a1 * b1 * Scale + a1 * b0 + a0 * b1 + (a0 * b0) \div Scale

RECURSIVE LongDiv(_, _, _, _)
LongDiv(q, r, b, s) ==
    IF s = 1 THEN q
    ELSE LongDiv(q * 10 + (r * 10) \div b, (r * 10) % b, b, s \div 10)

\* a / b on the grid for b > 0, rounded down, by long division.
DivFix(a, b) == LongDiv(a \div b, a % b, b, Scale)

RECURSIVE SqrtIter(_, _)
SqrtIter(n, g) ==
    LET h == (g + n \div g) \div 2
    IN  IF h >= g THEN g ELSE SqrtIter(n, h)

\* np.sqrt(x), x >= 0: the integer square root of x * Scale (Newton).
np_sqrt(x) == IF x <= 0 THEN 0 ELSE SqrtIter(x * Scale, x * Scale)

\* np.exp(x): halve the argument until |x| <= 1/2, then four Taylor terms.
RECURSIVE np_exp(_)
np_exp(x) ==
    IF x < -(12 * Scale) THEN 0
    ELSE IF Abs(x) > Scale \div 2
         THEN LET h == np_exp(x \div 2) IN MulFix(h, h)
         ELSE LET x2 == MulFix(x, x)
                  x3 == MulFix(x2, x)
                  x4 == MulFix(x3, x)
              IN  Scale + x + x2 \div 2 + x3 \div 6 + x4 \div 24

\* np.log(x), x > 0: reduce to [3/4, 3/2] by powers of two (ln 2 = 0.6931),
\* then ln x = 2 atanh((x - 1) / (x + 1)).
RECURSIVE np_log(_)
np_log(x) ==
    IF x > (3 * Scale) \div 2 THEN np_log(x \div 2) + 6931
    ELSE IF x < (3 * Scale) \div 4 THEN np_log(x * 2) - 6931
    ELSE LET z  == DivFix(x - Scale, x + Scale)
             z2 == MulFix(z, z)
             z3 == MulFix(z2, z)
             z5 == MulFix(z3, z2)
             z7 == MulFix(z5, z2)
         IN  2 * (z + z3 \div 3 + z5 \div 5 + z7 \div 7)

\* norm.pdf(x) = exp(-x^2 / 2) / sqrt(2 pi); 1 / sqrt(2 pi) = 0.3989.
norm_pdf(x) ==
    IF Abs(x) > 8 * Scale THEN 0
    ELSE MulFix(3989, np_exp(-(MulFix(x, x) \div 2)))

\* 1 - Phi(z) for z >= 0 (Abramowitz-Stegun 26.2.17).
UpperTail(z) ==
    LET t    == DivFix(Scale, Scale + MulFix(2316, z))
        poly == MulFix(t, 3194 + MulFix(t, -3566 + MulFix(t, 17815
                  + MulFix(t, -18213 + MulFix(t, 13303)))))
    IN  MulFix(norm_pdf(z), poly)

\* norm.cdf(x): the upper tail of |x|, reflected for x > 0 (scipy's ndtr
\* computes erfc(|x| / sqrt 2) / 2 and reflects it the same way, and gives
\* exactly 1/2 at 0).
norm_cdf(x) ==
    IF x > 8 * Scale THEN Scale
    ELSE IF x < -(8 * Scale) THEN 0
    ELSE IF x = 0 THEN Scale \div 2
    ELSE IF x > 0 THEN Scale - UpperTail(x) ELSE UpperTail(-x)

-----------------------------------------------------------------------------
(* options_calculator.py                                                   *)

\* d1 of calculate_option_price / calculate_option_greeks (the same line in
\* both).  Defined for spot > 0, strike > 0, volatility > 0, T > 0.
d1(spot, strike, time_to_expiry, volatility, risk_free_rate, dividend_yield) ==
    DivFix(np_log(DivFix(spot, strike))
             + MulFix(risk_free_rate - dividend_yield
                        + MulFix(Scale \div 2, MulFix(volatility, volatility)),
                      time_to_expiry),
           MulFix(volatility, np_sqrt(time_to_expiry)))

d2(d1v, time_to_expiry, volatility) ==
    d1v - MulFix(volatility, np_sqrt(time_to_expiry))

\* Mutants of expired_price: the payoff without its clamp at 0; the option
\* type compared without regard to case.
expired_price_unclamped(option_type, spot, strike) ==
    IF option_type = "call" THEN spot - strike ELSE strike - spot

expired_price_any_case(option_type, spot, strike) ==
    IF option_type \in {"call", "Call", "CALL"}
    THEN Max(0, spot - strike)
    ELSE Max(0, strike - spot)

\* Mutant of expired_price: the put's payoff taken with the call's sign.
expired_price_put_as_call(option_type, spot, strike) ==
    Max(0, spot - strike)

\* The expired branch of calculate_option_price.
expired_price(option_type, spot, strike) ==
    IF option_type = "call"
    THEN Max(0, spot - strike)
    ELSE Max(0, strike - spot)

\* Mutant of option_price_of: the put's spot leg without its dividend
\* discount.
option_price_of_undiscounted_put(option_type, spot, strike, time_to_expiry, risk_free_rate, dividend_yield, d1v, d2v) ==
    IF option_type = "call"
    THEN MulFix(MulFix(spot, np_exp(-MulFix(dividend_yield, time_to_expiry))),
                norm_cdf(d1v))
         - MulFix(MulFix(strike, np_exp(-MulFix(risk_free_rate, time_to_expiry))),
                  norm_cdf(d2v))
    ELSE MulFix(MulFix(strike, np_exp(-MulFix(risk_free_rate, time_to_expiry))),
                norm_cdf(-d2v))
         - MulFix(spot, norm_cdf(-d1v))

\* The general branch of calculate_option_price, given d1 and d2.
option_price_of(option_type, spot, strike, time_to_expiry, risk_free_rate, dividend_yield, d1v, d2v) ==
    IF option_type = "call"
    THEN MulFix(MulFix(spot, np_exp(-MulFix(dividend_yield, time_to_expiry))),
                norm_cdf(d1v))
         - MulFix(MulFix(strike, np_exp(-MulFix(risk_free_rate, time_to_expiry))),
                  norm_cdf(d2v))
    ELSE MulFix(MulFix(strike, np_exp(-MulFix(risk_free_rate, time_to_expiry))),
                norm_cdf(-d2v))
         - MulFix(MulFix(spot, np_exp(-MulFix(dividend_yield, time_to_expiry))),
                  norm_cdf(-d1v))

calculate_option_price(option_type, spot, strike, time_to_expiry, volatility, risk_free_rate, dividend_yield) ==
    IF time_to_expiry <= 0
    THEN expired_price(option_type, spot, strike)
    ELSE LET d1v == d1(spot, strike, time_to_expiry, volatility,
                       risk_free_rate, dividend_yield)
             d2v == d2(d1v, time_to_expiry, volatility)
         IN  option_price_of(option_type, spot, strike, time_to_expiry,
                             risk_free_rate, dividend_yield, d1v, d2v)

\* Mutant of expired_greeks: an expired option given a delta of 1.
expired_greeks_unit_delta ==
    [delta |-> Scale, gamma |-> 0, theta |-> 0, vega |-> 0, rho |-> 0]

\* The expired branch of calculate_option_greeks.
expired_greeks ==
    [delta |-> 0, gamma |-> 0, theta |-> 0, vega |-> 0, rho |-> 0]

delta_of(option_type, time_to_expiry, dividend_yield, d1v) ==
    IF option_type = "call"
    THEN MulFix(np_exp(-MulFix(dividend_yield, time_to_expiry)), norm_cdf(d1v))
    ELSE MulFix(np_exp(-MulFix(dividend_yield, time_to_expiry)), norm_cdf(d1v) - Scale)

\* Gamma (same for call and put).
gamma_of(spot, time_to_expiry, volatility, dividend_yield, n_d1) ==
    DivFix(MulFix(np_exp(-MulFix(dividend_yield, time_to_expiry)), n_d1),
           MulFix(MulFix(spot, volatility), np_sqrt(time_to_expiry)))

\* Vega (same for call and put), per percentage point: the 0.01 factor.
vega_of(spot, time_to_expiry, dividend_yield, n_d1) ==
    MulFix(MulFix(MulFix(MulFix(Scale \div 100, spot),
                         np_exp(-MulFix(dividend_yield, time_to_expiry))),
                  n_d1),
           np_sqrt(time_to_expiry))

\* Theta per year, then "Convert theta to daily": / 365.
theta_of(option_type, spot, strike, time_to_expiry, volatility, risk_free_rate, dividend_yield, d1v, d2v, n_d1) ==
    LET eq    == np_exp(-MulFix(dividend_yield, time_to_expiry))
        er    == np_exp(-MulFix(risk_free_rate, time_to_expiry))
        decay == DivFix(MulFix(MulFix(MulFix(-eq, spot), n_d1), volatility),
                        2 * np_sqrt(time_to_expiry))
        yearly ==
            IF option_type = "call"
            THEN decay
                 - MulFix(MulFix(MulFix(risk_free_rate, strike), er), norm_cdf(d2v))
                 + MulFix(MulFix(MulFix(dividend_yield, spot), eq), norm_cdf(d1v))
            ELSE decay
                 + MulFix(MulFix(MulFix(risk_free_rate, strike), er), norm_cdf(-d2v))
                 - MulFix(MulFix(MulFix(dividend_yield, spot), eq), norm_cdf(-d1v))
    IN  yearly \div 365

\* Rho per percentage point: the 0.01 factor.
rho_of(option_type, strike, time_to_expiry, risk_free_rate, d2v) ==
    LET er == np_exp(-MulFix(risk_free_rate, time_to_expiry))
    IN  IF option_type = "call"
        THEN MulFix(MulFix(MulFix(MulFix(Scale \div 100, strike), time_to_expiry), er),
                    norm_cdf(d2v))
        ELSE MulFix(MulFix(MulFix(MulFix(-(Scale \div 100), strike), time_to_expiry), er),
                    norm_cdf(-d2v))

\* Mutant of calculate_option_greeks: the put's vega given the sign of the
\* put's rho.
calculate_option_greeks_signed_vega(option_type, spot, strike, time_to_expiry, volatility, risk_free_rate, dividend_yield) ==
    IF time_to_expiry <= 0
    THEN expired_greeks
    ELSE LET d1v  == d1(spot, strike, time_to_expiry, volatility,
                        risk_free_rate, dividend_yield)
             d2v  == d2(d1v, time_to_expiry, volatility)
             n_d1 == norm_pdf(d1v)
             v    == vega_of(spot, time_to_expiry, dividend_yield, n_d1)
         IN  [delta |-> delta_of(option_type, time_to_expiry, dividend_yield, d1v),
              gamma |-> gamma_of(spot, time_to_expiry, volatility, dividend_yield, n_d1),
              theta |-> theta_of(option_type, spot, strike, time_to_expiry, volatility,
                                 risk_free_rate, dividend_yield, d1v, d2v, n_d1),
              vega  |-> IF option_type = "call" THEN v ELSE -v,
              rho   |-> rho_of(option_type, strike, time_to_expiry, risk_free_rate, d2v)]

calculate_option_greeks(option_type, spot, strike, time_to_expiry, volatility, risk_free_rate, dividend_yield) ==
    IF time_to_expiry <= 0
    THEN expired_greeks
    ELSE LET d1v  == d1(spot, strike, time_to_expiry, volatility,
                        risk_free_rate, dividend_yield)
             d2v  == d2(d1v, time_to_expiry, volatility)
             n_d1 == norm_pdf(d1v)
         IN  [delta |-> delta_of(option_type, time_to_expiry, dividend_yield, d1v),
              gamma |-> gamma_of(spot, time_to_expiry, volatility, dividend_yield, n_d1),
              theta |-> theta_of(option_type, spot, strike, time_to_expiry, volatility,
                                 risk_free_rate, dividend_yield, d1v, d2v, n_d1),
              vega  |-> vega_of(spot, time_to_expiry, dividend_yield, n_d1),
              rho   |-> rho_of(option_type, strike, time_to_expiry, risk_free_rate, d2v)]

\* pct_diff = abs(spot - strike) / strike, kept as the exact quotient
\* num / den: the comparison with the threshold decides the branch, and on
\* whole-dollar inputs the double quotient compares as the exact one does.
pct_diff(spot, strike) == [num |-> Abs(spot - strike), den |-> strike]

\* Mutant of PctLeq: the boundary left out (pct_diff < threshold).
PctLt(p, threshold) == -DivFix(-p.num, p.den) < threshold

\* pct_diff <= threshold, for strike > 0 and a threshold on the grid: the
\* exact quotient is at most threshold iff the quotient rounded up is.
PctLeq(p, threshold) == -DivFix(-p.num, p.den) <= threshold

\* Mutant of is_itm_atm_otm: a spot at the strike counted in the money
\* (>= and <= for > and <).
is_itm_atm_otm_inclusive(option_type, spot, strike, threshold) ==
    IF PctLt(pct_diff(spot, strike), threshold)
    THEN "ATM"
    ELSE IF option_type = "call"
         THEN (IF spot >= strike THEN "ITM" ELSE "OTM")
         ELSE (IF spot <= strike THEN "ITM" ELSE "OTM")

\* Mutant of is_itm_atm_otm: the put judged by the call's comparison.
is_itm_atm_otm_put_as_call(option_type, spot, strike, threshold) ==
    IF PctLeq(pct_diff(spot, strike), threshold)
    THEN "ATM"
    ELSE IF option_type = "call"
         THEN (IF spot > strike THEN "ITM" ELSE "OTM")
         ELSE (IF spot > strike THEN "ITM" ELSE "OTM")

is_itm_atm_otm(option_type, spot, strike, threshold) ==
    IF PctLeq(pct_diff(spot, strike), threshold)
    THEN "ATM"
    ELSE IF option_type = "call"
         THEN (IF spot > strike THEN "ITM" ELSE "OTM")
         ELSE (IF spot < strike THEN "ITM" ELSE "OTM")

\* The default of is_itm_atm_otm's threshold parameter: 0.01.
DefaultThreshold == Scale \div 100

-----------------------------------------------------------------------------
(* State.                                                                  *)

VARIABLES
    args,        \* Spec: the arguments of the engine call under study
    call,        \* Spec: the last engine call made on args
    pc,          \* AppSpec: where the script is
    inputs,      \* AppSpec: the widgets' values
    conv,        \* AppSpec: the converted inputs (app.py 93-96)
    base,        \* AppSpec: greeks, option_price, moneyness, intrinsic_value, time_value
    spot_range,  \* AppSpec: tabs[0] and tabs[1]
    vol_range,   \* AppSpec: tabs[2]
    days_range,  \* AppSpec: tabs[3]
    time_range,  \* AppSpec: tabs[3]
    curves,      \* AppSpec: the lists the loops append to
    calls        \* AppSpec: the engine calls of the last step, in order

engineVars == <<args, call>>
appVars == <<pc, inputs, conv, base, spot_range, vol_range, days_range, time_range, curves, calls>>
vars == <<args, call, pc, inputs, conv, base, spot_range, vol_range, days_range, time_range, curves, calls>>

\* The script's variables before the script has assigned them.
NoInputs ==
    [option_type |-> "", spot_price |-> 0, strike_price |-> 0, days_to_expiry |-> 0,
     volatility |-> 0, risk_free_rate |-> 0, dividend_yield |-> 0]

NoConv ==
    [time_to_expiry |-> 0, volatility_decimal |-> 0,
     risk_free_rate_decimal |-> 0, dividend_yield_decimal |-> 0]

NoBase ==
    [greeks |-> <<>>, option_price |-> 0, moneyness |-> "",
     intrinsic_value |-> 0, time_value |-> 0]

EmptyCurves ==
    [call_prices |-> <<>>, put_prices |-> <<>>,
     delta_values |-> <<>>, gamma_values |-> <<>>,
     theta_values |-> <<>>, vega_values |-> <<>>,
     delta_vs_vol |-> <<>>, gamma_vs_vol |-> <<>>,
     theta_vs_vol |-> <<>>, vega_vs_vol |-> <<>>,
     delta_vs_time |-> <<>>, gamma_vs_time |-> <<>>,
     theta_vs_time |-> <<>>, vega_vs_time |-> <<>>]

\* No script is running (Spec).
AppIdle ==
    /\ pc = "idle"
    /\ inputs = NoInputs
    /\ conv = NoConv
    /\ base = NoBase
    /\ spot_range = <<>>
    /\ vol_range = <<>>
    /\ days_range = <<>>
    /\ time_range = <<>>
    /\ curves = EmptyCurves
    /\ calls = <<>>

-----------------------------------------------------------------------------
(* Spec: the engine's three functions, called on inputs from bounded sets. *)

\* Spots lie within SpotDev dollars of 100, the times to expiry within
\* MaxYears years of 0, the volatilities on VolSteps steps of 15 %, the
\* thresholds on MaxThresholdPct steps of 1 %.
SpotDev == 2
MaxYears == 1
VolSteps == 2
MaxThresholdPct == 2

Dollars(n) == n * Scale

\* 'call' and 'put', and strings that are neither.
OptionTypes == {"call", "put", "Call", "CALL", ""}

Spots ==
    {Dollars(100 + k) : k \in -SpotDev..SpotDev}
        \cup {Dollars(50), Dollars(90), Dollars(110)}

Strikes == {Dollars(50), Dollars(100)}

\* Expired (negative and zero), 30 days, and whole years.
Times == {k * Scale : k \in -MaxYears..MaxYears} \cup {DivFix(30 * Scale, 365 * Scale)}

Volatilities == {k * ((15 * Scale) \div 100) : k \in 0..VolSteps}

Rates == {0, (25 * Scale) \div 1000}

Yields == {0, (2 * Scale) \div 100}

Thresholds == {k * (Scale \div 100) : k \in 0..MaxThresholdPct}

\* The engine's documented domain: spot > 0 and strike > 0 by the sets above,
\* and volatility > 0 whenever time_to_expiry > 0.
EngineInputs ==
    {a \in [option_type : OptionTypes, spot : Spots, strike : Strikes,
            time_to_expiry : Times, volatility : Volatilities,
            risk_free_rate : Rates, dividend_yield : Yields] :
        a.time_to_expiry > 0 => a.volatility > 0}

NoCall == [fn |-> "none", threshold |-> DefaultThreshold, result |-> 0]

Init ==
    /\ args \in EngineInputs
    /\ call = NoCall
    /\ AppIdle

CallPrice ==
    /\ call' = [fn |-> "calculate_option_price",
                threshold |-> DefaultThreshold,
                result |-> calculate_option_price(args.option_type, args.spot,
                               args.strike, args.time_to_expiry, args.volatility,
                               args.risk_free_rate, args.dividend_yield)]
    /\ UNCHANGED args
    /\ UNCHANGED appVars

CallGreeks ==
    /\ call' = [fn |-> "calculate_option_greeks",
                threshold |-> DefaultThreshold,
                result |-> calculate_option_greeks(args.option_type, args.spot,
                               args.strike, args.time_to_expiry, args.volatility,
                               args.risk_free_rate, args.dividend_yield)]
    /\ UNCHANGED args
    /\ UNCHANGED appVars

CallMoneyness ==
    /\ \E threshold \in Thresholds :
          call' = [fn |-> "is_itm_atm_otm",
                   threshold |-> threshold,
                   result |-> is_itm_atm_otm(args.option_type, args.spot,
                                             args.strike, threshold)]
    /\ UNCHANGED args
    /\ UNCHANGED appVars

Next == CallPrice \/ CallGreeks \/ CallMoneyness

Spec == Init /\ [][Next]_vars

-----------------------------------------------------------------------------
(* Properties of the engine, checked under Spec.                           *)

IsPriceCall == call.fn = "calculate_option_price"
IsGreeksCall == call.fn = "calculate_option_greeks"
IsMoneynessCall == call.fn = "is_itm_atm_otm"

\* The price / the Greeks / the classification of args with another option type.
PriceAs(option_type) ==
    calculate_option_price(option_type, args.spot, args.strike,
        args.time_to_expiry, args.volatility, args.risk_free_rate,
        args.dividend_yield)

GreeksAs(option_type) ==
    calculate_option_greeks(option_type, args.spot, args.strike,
        args.time_to_expiry, args.volatility, args.risk_free_rate,
        args.dividend_yield)

\* |spot - strike| / strike <= threshold, cross-multiplied in whole dollars
\* (every spot and strike of Spec is a whole number of dollars).
WithinThreshold(threshold) ==
    (Abs(args.spot - args.strike) \div Scale) * Scale
        <= threshold * (args.strike \div Scale)

\* C1: with time_to_expiry <= 0, calculate_option_price returns the
\* intrinsic value alone, max(0, spot - strike) for a call and
\* max(0, strike - spot) for a put, whatever volatility, rate and yield are.
C1_ExpiredPriceIsIntrinsic ==
    (IsPriceCall /\ args.time_to_expiry <= 0) =>
        /\ args.option_type = "call" =>
              call.result = (IF args.spot > args.strike
                             THEN args.spot - args.strike ELSE 0)
        /\ args.option_type = "put" =>
              call.result = (IF args.strike > args.spot
                             THEN args.strike - args.spot ELSE 0)

\* C1 witness: the call of spot 110, strike 100 at time_to_expiry = 0 and
\* volatility = 0 is priced 10.
C1_Witness ==
    /\ IsPriceCall
    /\ args.option_type = "call"
    /\ args.time_to_expiry = 0
    /\ args.volatility = 0
    /\ args.spot = Dollars(110)
    /\ args.strike = Dollars(100)
    /\ call.result = Dollars(10)

\* C2: with time_to_expiry <= 0, calculate_option_greeks returns delta,
\* gamma, theta, vega and rho all exactly 0, for every option type, spot,
\* strike, volatility, rate and yield.
C2_ExpiredGreeksAreZero ==
    (IsGreeksCall /\ args.time_to_expiry <= 0) =>
        /\ DOMAIN call.result = {"delta", "gamma", "theta", "vega", "rho"}
        /\ \A g \in DOMAIN call.result : call.result[g] = 0

\* C2 witness: the Greeks of an in-the-money put one year past expiry, with
\* a positive volatility and rate.
C2_Witness ==
    /\ IsGreeksCall
    /\ args.option_type = "put"
    /\ args.time_to_expiry < 0
    /\ args.spot < args.strike
    /\ args.volatility > 0
    /\ args.risk_free_rate > 0
    /\ call.result.delta = 0

\* C3: is_itm_atm_otm returns ATM whenever |spot - strike| / strike <=
\* threshold, the boundary included, whatever the option type is.
C3_AtmWithinThreshold ==
    (IsMoneynessCall /\ WithinThreshold(call.threshold)) =>
        call.result = "ATM"

\* C3 witness: a put exactly on the boundary (spot 101, strike 100,
\* threshold 0.01) is ATM.
C3_Witness ==
    /\ IsMoneynessCall
    /\ args.option_type = "put"
    /\ args.spot = Dollars(101)
    /\ args.strike = Dollars(100)
    /\ call.threshold = DefaultThreshold
    /\ call.result = "ATM"

\* C4: beyond the threshold a call is ITM exactly when spot > strike and
\* OTM otherwise, a put is ITM exactly when spot < strike and OTM otherwise;
\* no result is anything but ITM, ATM or OTM.
C4_ItmOtmBeyondThreshold ==
    IsMoneynessCall =>
        /\ call.result \in {"ITM", "ATM", "OTM"}
        /\ ~WithinThreshold(call.threshold) =>
              /\ args.option_type = "call" =>
                    call.result = (IF args.spot > args.strike
                                   THEN "ITM" ELSE "OTM")
              /\ args.option_type = "put" =>
                    call.result = (IF args.spot < args.strike
                                   THEN "ITM" ELSE "OTM")

\* C4 witness: the put of spot 110, strike 100 at threshold 0.01 is OTM.
C4_Witness ==
    /\ IsMoneynessCall
    /\ args.option_type = "put"
    /\ args.spot = Dollars(110)
    /\ args.strike = Dollars(100)
    /\ call.threshold = DefaultThreshold
    /\ call.result = "OTM"

\* C5: an option_type that is not exactly 'call' raises nothing and gives,
\* in each of the three functions, the result 'put' gives on the same
\* remaining inputs.
C5_UnrecognizedTypeIsPut ==
    args.option_type # "call" =>
        /\ IsPriceCall => call.result = PriceAs("put")
        /\ IsGreeksCall => call.result = GreeksAs("put")
        /\ IsMoneynessCall =>
              call.result = is_itm_atm_otm("put", args.spot, args.strike,
                                           call.threshold)

\* C5 witness: 'Call' priced before expiry as a put, at a price that is not
\* the call's.
C5_Witness ==
    /\ IsPriceCall
    /\ args.option_type = "Call"
    /\ args.time_to_expiry > 0
    /\ call.result = PriceAs("put")
    /\ call.result # PriceAs("call")

\* spot * e^(-qT) - strike * e^(-rT).
ParityGap ==
    MulFix(args.spot, np_exp(-MulFix(args.dividend_yield, args.time_to_expiry)))
        - MulFix(args.strike, np_exp(-MulFix(args.risk_free_rate, args.time_to_expiry)))

\* C6: put-call parity: with time_to_expiry > 0 on valid inputs, the call
\* price minus the put price is spot * e^(-qT) - strike * e^(-rT) within
\* rounding: one grid unit, since each leg's two rounded products (by
\* norm.cdf(d) and by norm.cdf(-d)) add up to the leg or to one unit less.
C6_PutCallParity ==
    (IsPriceCall /\ args.option_type = "call" /\ args.time_to_expiry > 0) =>
        Abs((call.result - PriceAs("put")) - ParityGap) <= 1

\* C6 witness: a call priced before expiry with a dividend yield and a
\* rate, where both the call and the put are worth something.
C6_Witness ==
    /\ IsPriceCall
    /\ args.option_type = "call"
    /\ args.time_to_expiry > 0
    /\ args.dividend_yield > 0
    /\ args.risk_free_rate > 0
    /\ call.result > Scale
    /\ PriceAs("put") > Scale

\* C7: gamma and vega of calculate_option_greeks do not depend on the
\* option type: on identical other inputs the call's and the put's agree,
\* in the expired branch and in the general one.
C7_GammaVegaIgnoreType ==
    (IsGreeksCall /\ args.option_type = "call") =>
        /\ call.result.gamma = GreeksAs("put").gamma
        /\ call.result.vega = GreeksAs("put").vega

\* C7 witness: Greeks before expiry with positive gamma and vega, where the
\* put's delta is not the call's.
C7_Witness ==
    /\ IsGreeksCall
    /\ args.option_type = "call"
    /\ args.time_to_expiry > 0
    /\ call.result.gamma > 0
    /\ call.result.vega > 0
    /\ call.result.delta # GreeksAs("put").delta

-----------------------------------------------------------------------------
(* AppSpec: one run of app.py after another, each on the widgets' values.  *)

\* The spots offered are the least the widget allows, 1, and those within
\* AppSpotDev dollars above 100; the
\* volatilities on AppVolSteps steps of 25 points from 5 %; the days to
\* expiry on AppDaySteps steps of 370 days from 30.
AppSpotDev == 1
AppVolSteps == 1
AppDaySteps == 0

\* np.linspace(..., 100) in tabs[0], tabs[2] and tabs[3].
NumSamples == 100

\* The selectbox's options.
WidgetOptionTypes == {"Call", "Put"}

\* Values the number inputs and sliders allow (spot and strike in
\* [1, 10000], days in [1, 1000], volatility in [1, 200] %, rate and yield
\* in [0, 10] %), the extremes of days and volatility among them.
WidgetSpots == {Dollars(1)} \cup {Dollars(100 + k) : k \in 0..AppSpotDev}
WidgetStrikes == {Dollars(100)}
WidgetDays == {1, 1000} \cup {30 + 370 * k : k \in 0..AppDaySteps}
WidgetVolatilities == {1 * Scale, 200 * Scale} \cup {(5 + 25 * k) * Scale : k \in 0..AppVolSteps}
WidgetRates == {(25 * Scale) \div 10}
WidgetYields == {0}

WidgetValues ==
    [option_type : WidgetOptionTypes, spot_price : WidgetSpots,
     strike_price : WidgetStrikes, days_to_expiry : WidgetDays,
     volatility : WidgetVolatilities, risk_free_rate : WidgetRates,
     dividend_yield : WidgetYields]

\* str.lower() on the option types of this model.
Lower(str) ==
    CASE str = "Call" -> "call"
      [] str = "CALL" -> "call"
      [] str = "Put"  -> "put"
      [] OTHER        -> str

\* np.linspace(start, stop, num): start + k * (stop - start) / (num - 1) for
\* k = 0 .. num - 1, the last sample set to stop.
Linspace(start, stop, num) ==
    [k \in 1..num |->
        IF k = num THEN stop
        ELSE start + ((k - 1) * (stop - start)) \div (num - 1)]

\* One engine call, as the script makes it.
EngineCall(fn, option_type, spot, strike, time_to_expiry, volatility, risk_free_rate, dividend_yield) ==
    [fn |-> fn, option_type |-> option_type, spot |-> spot, strike |-> strike,
     time_to_expiry |-> time_to_expiry, volatility |-> volatility,
     risk_free_rate |-> risk_free_rate, dividend_yield |-> dividend_yield]

\* Mutant of greeks_at: the base spot passed in place of the loop's.
greeks_at_base_spot(spot, time_to_expiry, volatility) ==
    calculate_option_greeks(Lower(inputs.option_type), inputs.spot_price,
        inputs.strike_price, time_to_expiry, volatility,
        conv.risk_free_rate_decimal, conv.dividend_yield_decimal)

\* The Greeks of the base inputs with one field replaced.
greeks_at(spot, time_to_expiry, volatility) ==
    calculate_option_greeks(Lower(inputs.option_type), spot, inputs.strike_price,
        time_to_expiry, volatility, conv.risk_free_rate_decimal,
        conv.dividend_yield_decimal)

GreeksCallAt(spot, time_to_expiry, volatility) ==
    EngineCall("calculate_option_greeks", Lower(inputs.option_type), spot,
        inputs.strike_price, time_to_expiry, volatility,
        conv.risk_free_rate_decimal, conv.dividend_yield_decimal)

\* A script about to run on the widgets' values w.
Fresh(w) ==
    /\ pc = "base"
    /\ inputs = w
    /\ conv = NoConv
    /\ base = NoBase
    /\ spot_range = <<>>
    /\ vol_range = <<>>
    /\ days_range = <<>>
    /\ time_range = <<>>
    /\ curves = EmptyCurves
    /\ calls = <<>>

AppInit ==
    /\ args = CHOOSE a \in EngineInputs : TRUE
    /\ call = NoCall
    /\ \E w \in WidgetValues : Fresh(w)

\* "Convert inputs to the right format".
converted(w) ==
    [time_to_expiry |-> DivFix(w.days_to_expiry * Scale, 365 * Scale),
     volatility_decimal |-> DivFix(w.volatility, 100 * Scale),
     risk_free_rate_decimal |-> DivFix(w.risk_free_rate, 100 * Scale),
     dividend_yield_decimal |-> DivFix(w.dividend_yield, 100 * Scale)]

\* intrinsic_value of the "Intrinsic Value" metric.
intrinsic_value_of(w) ==
    Max(0, IF Lower(w.option_type) = "call"
           THEN w.spot_price - w.strike_price
           ELSE w.strike_price - w.spot_price)

\* From the conversions to the three metrics: the base Greeks, price and
\* moneyness, the intrinsic value and the time value.
BaseCalc ==
    /\ pc = "base"
    /\ LET c  == converted(inputs)
           ot == Lower(inputs.option_type)
           option_price ==
               calculate_option_price(ot, inputs.spot_price, inputs.strike_price,
                   c.time_to_expiry, c.volatility_decimal,
                   c.risk_free_rate_decimal, c.dividend_yield_decimal)
       IN  /\ conv' = c
           /\ base' =
                [greeks |-> calculate_option_greeks(ot, inputs.spot_price,
                                inputs.strike_price, c.time_to_expiry,
                                c.volatility_decimal, c.risk_free_rate_decimal,
                                c.dividend_yield_decimal),
                 option_price |-> option_price,
                 moneyness |-> is_itm_atm_otm(ot, inputs.spot_price,
                                   inputs.strike_price, DefaultThreshold),
                 intrinsic_value |-> intrinsic_value_of(inputs),
                 time_value |-> option_price - intrinsic_value_of(inputs)]
           /\ calls' =
                <<EngineCall("calculate_option_greeks", ot, inputs.spot_price,
                      inputs.strike_price, c.time_to_expiry, c.volatility_decimal,
                      c.risk_free_rate_decimal, c.dividend_yield_decimal),
                  EngineCall("calculate_option_price", ot, inputs.spot_price,
                      inputs.strike_price, c.time_to_expiry, c.volatility_decimal,
                      c.risk_free_rate_decimal, c.dividend_yield_decimal),
                  [fn |-> "is_itm_atm_otm", option_type |-> ot,
                   spot |-> inputs.spot_price, strike |-> inputs.strike_price]>>
    /\ pc' = "tab0_range"
    /\ UNCHANGED <<inputs, spot_range, vol_range, days_range, time_range, curves>>
    /\ UNCHANGED engineVars

\* tabs[0]: spot_range.
spot_range_of(spot_price) ==
    Linspace(MulFix(spot_price, (7 * Scale) \div 10),
             MulFix(spot_price, (13 * Scale) \div 10), NumSamples)

Tab0Range ==
    /\ pc = "tab0_range"
    /\ spot_range' = spot_range_of(inputs.spot_price)
    /\ curves' = [curves EXCEPT !.call_prices = <<>>, !.put_prices = <<>>]
    /\ calls' = <<>>
    /\ pc' = "tab0_loop"
    /\ UNCHANGED <<inputs, conv, base, vol_range, days_range, time_range>>
    /\ UNCHANGED engineVars

\* tabs[0]: one pass of "for spot in spot_range".
Tab0Sample ==
    /\ pc = "tab0_loop"
    /\ Len(curves.call_prices) < Len(spot_range)
    /\ LET spot == spot_range[Len(curves.call_prices) + 1]
           call_price ==
               calculate_option_price("call", spot, inputs.strike_price,
                   conv.time_to_expiry, conv.volatility_decimal,
                   conv.risk_free_rate_decimal, conv.dividend_yield_decimal)
           put_price ==
               calculate_option_price("put", spot, inputs.strike_price,
                   conv.time_to_expiry, conv.volatility_decimal,
                   conv.risk_free_rate_decimal, conv.dividend_yield_decimal)
       IN  /\ curves' = [curves EXCEPT
                            !.call_prices = Append(@, call_price),
                            !.put_prices = Append(@, put_price)]
           /\ calls' =
                <<EngineCall("calculate_option_price", "call", spot,
                      inputs.strike_price, conv.time_to_expiry,
                      conv.volatility_decimal, conv.risk_free_rate_decimal,
                      conv.dividend_yield_decimal),
                  EngineCall("calculate_option_price", "put", spot,
                      inputs.strike_price, conv.time_to_expiry,
                      conv.volatility_decimal, conv.risk_free_rate_decimal,
                      conv.dividend_yield_decimal)>>
    /\ UNCHANGED <<pc, inputs, conv, base, spot_range, vol_range, days_range, time_range>>
    /\ UNCHANGED engineVars

\* tabs[1]: the four lists, once tabs[0]'s loop has ended.
Tab1Start ==
    /\ pc = "tab0_loop"
    /\ Len(curves.call_prices) = Len(spot_range)
    /\ curves' = [curves EXCEPT !.delta_values = <<>>, !.gamma_values = <<>>,
                                !.theta_values = <<>>, !.vega_values = <<>>]
    /\ calls' = <<>>
    /\ pc' = "tab1_loop"
    /\ UNCHANGED <<inputs, conv, base, spot_range, vol_range, days_range, time_range>>
    /\ UNCHANGED engineVars

\* tabs[1]: one pass of "for spot in spot_range".
Tab1Sample ==
    /\ pc = "tab1_loop"
    /\ Len(curves.delta_values) < Len(spot_range)
    /\ LET spot == spot_range[Len(curves.delta_values) + 1]
           greeks_at_spot ==
               greeks_at(spot, conv.time_to_expiry, conv.volatility_decimal)
       IN  /\ curves' = [curves EXCEPT
                            !.delta_values = Append(@, greeks_at_spot.delta),
                            !.gamma_values = Append(@, greeks_at_spot.gamma),
                            !.theta_values = Append(@, greeks_at_spot.theta),
                            !.vega_values = Append(@, greeks_at_spot.vega)]
           /\ calls' = <<GreeksCallAt(spot, conv.time_to_expiry,
                                      conv.volatility_decimal)>>
    /\ UNCHANGED <<pc, inputs, conv, base, spot_range, vol_range, days_range, time_range>>
    /\ UNCHANGED engineVars

\* Mutant of vol_range_of: the sweep from half the base volatility, with no
\* floor at 0.05.
vol_range_of_unfloored(volatility_decimal) ==
    Linspace(MulFix(volatility_decimal, Scale \div 2),
             MulFix(volatility_decimal, (15 * Scale) \div 10), NumSamples)

\* tabs[2]: vol_range.
vol_range_of(volatility_decimal) ==
    Linspace(Max((5 * Scale) \div 100, MulFix(volatility_decimal, Scale \div 2)),
             MulFix(volatility_decimal, (15 * Scale) \div 10), NumSamples)

Tab2Range ==
    /\ pc = "tab1_loop"
    /\ Len(curves.delta_values) = Len(spot_range)
    /\ vol_range' = vol_range_of(conv.volatility_decimal)
    /\ curves' = [curves EXCEPT !.delta_vs_vol = <<>>, !.gamma_vs_vol = <<>>,
                                !.theta_vs_vol = <<>>, !.vega_vs_vol = <<>>]
    /\ calls' = <<>>
    /\ pc' = "tab2_loop"
    /\ UNCHANGED <<inputs, conv, base, spot_range, days_range, time_range>>
    /\ UNCHANGED engineVars

\* tabs[2]: one pass of "for vol in vol_range".
Tab2Sample ==
    /\ pc = "tab2_loop"
    /\ Len(curves.delta_vs_vol) < Len(vol_range)
    /\ LET vol == vol_range[Len(curves.delta_vs_vol) + 1]
           greeks_at_vol ==
               greeks_at(inputs.spot_price, conv.time_to_expiry, vol)
       IN  /\ curves' = [curves EXCEPT
                            !.delta_vs_vol = Append(@, greeks_at_vol.delta),
                            !.gamma_vs_vol = Append(@, greeks_at_vol.gamma),
                            !.theta_vs_vol = Append(@, greeks_at_vol.theta),
                            !.vega_vs_vol = Append(@, greeks_at_vol.vega)]
           /\ calls' = <<GreeksCallAt(inputs.spot_price, conv.time_to_expiry, vol)>>
    /\ UNCHANGED <<pc, inputs, conv, base, spot_range, vol_range, days_range, time_range>>
    /\ UNCHANGED engineVars

\* Mutant of days_range_of: the sweep started at day 0.
days_range_of_from_zero(days_to_expiry) ==
    Linspace(0, Min(365, days_to_expiry * 2) * Scale, NumSamples)

\* tabs[3]: days_range.
days_range_of(days_to_expiry) ==
    Linspace(1 * Scale, Min(365, days_to_expiry * 2) * Scale, NumSamples)

\* tabs[3]: time_range = days_range / 365.0.
time_range_of(days) ==
    [k \in DOMAIN days |-> DivFix(days[k], 365 * Scale)]

Tab3Range ==
    /\ pc = "tab2_loop"
    /\ Len(curves.delta_vs_vol) = Len(vol_range)
    /\ days_range' = days_range_of(inputs.days_to_expiry)
    /\ time_range' = time_range_of(days_range_of(inputs.days_to_expiry))
    /\ curves' = [curves EXCEPT !.delta_vs_time = <<>>, !.gamma_vs_time = <<>>,
                                !.theta_vs_time = <<>>, !.vega_vs_time = <<>>]
    /\ calls' = <<>>
    /\ pc' = "tab3_loop"
    /\ UNCHANGED <<inputs, conv, base, spot_range, vol_range>>
    /\ UNCHANGED engineVars

\* tabs[3]: one pass of "for t in time_range".
Tab3Sample ==
    /\ pc = "tab3_loop"
    /\ Len(curves.delta_vs_time) < Len(time_range)
    /\ LET t == time_range[Len(curves.delta_vs_time) + 1]
           greeks_at_time ==
               greeks_at(inputs.spot_price, t, conv.volatility_decimal)
       IN  /\ curves' = [curves EXCEPT
                            !.delta_vs_time = Append(@, greeks_at_time.delta),
                            !.gamma_vs_time = Append(@, greeks_at_time.gamma),
                            !.theta_vs_time = Append(@, greeks_at_time.theta),
                            !.vega_vs_time = Append(@, greeks_at_time.vega)]
           /\ calls' = <<GreeksCallAt(inputs.spot_price, t, conv.volatility_decimal)>>
    /\ UNCHANGED <<pc, inputs, conv, base, spot_range, vol_range, days_range, time_range>>
    /\ UNCHANGED engineVars

\* The script ends after tabs[3]'s loop (the rest draws and explains).
Finish ==
    /\ pc = "tab3_loop"
    /\ Len(curves.delta_vs_time) = Len(time_range)
    /\ pc' = "done"
    /\ calls' = <<>>
    /\ UNCHANGED <<inputs, conv, base, spot_range, vol_range, days_range, time_range, curves>>
    /\ UNCHANGED engineVars

\* The user changes a widget: Streamlit runs the script again from the top,
\* in a fresh namespace.
Rerun ==
    /\ pc = "done"
    /\ \E w \in WidgetValues :
          /\ pc' = "base"
          /\ inputs' = w
    /\ conv' = NoConv
    /\ base' = NoBase
    /\ spot_range' = <<>>
    /\ vol_range' = <<>>
    /\ days_range' = <<>>
    /\ time_range' = <<>>
    /\ curves' = EmptyCurves
    /\ calls' = <<>>
    /\ UNCHANGED engineVars

AppNext ==
    \/ BaseCalc
    \/ Tab0Range
    \/ Tab0Sample
    \/ Tab1Start
    \/ Tab1Sample
    \/ Tab2Range
    \/ Tab2Sample
    \/ Tab3Range
    \/ Tab3Sample
    \/ Finish
    \/ Rerun

AppSpec == AppInit /\ [][AppNext]_vars

-----------------------------------------------------------------------------
(* Properties of the script, checked under AppSpec.                        *)

\* tabs[2] has computed vol_range.
VolRangeReady == pc \in {"tab2_loop", "tab3_loop", "done"}

\* Every sample lies within one grid unit of its place on the straight line
\* from the first sample to the last.
EvenlySpaced(samples) ==
    \A k \in DOMAIN samples :
        Abs((Len(samples) - 1) * (samples[k] - samples[1])
              - (k - 1) * (samples[Len(samples)] - samples[1]))
            < Len(samples) - 1

\* 0.5 and 1.5 times the base volatility.
HalfBaseVolatility == conv.volatility_decimal \div 2
ThreeHalvesBaseVolatility == (3 * conv.volatility_decimal) \div 2

\* C9 as stated: the volatility sweep is 100 evenly spaced samples from 0.5
\* times to 1.5 times the base volatility, for every base volatility the
\* widget allows.
C9_VolSweepHalfToThreeHalves ==
    VolRangeReady =>
        /\ Len(vol_range) = 100
        /\ vol_range[1] = HalfBaseVolatility
        /\ vol_range[Len(vol_range)] = ThreeHalvesBaseVolatility
        /\ EvenlySpaced(vol_range)

\* C9 amended: the volatility sweep is 100 evenly spaced samples from
\* max(0.05, 0.5 times the base volatility) to 1.5 times the base
\* volatility, each passed as the volatility of one calculate_option_greeks
\* call; it starts at 0.5 times the base only for a base of 10 % or more.
C9_VolSweepFlooredAtFivePercent ==
    /\ VolRangeReady =>
          /\ Len(vol_range) = 100
          /\ vol_range[1] = Max((5 * Scale) \div 100, HalfBaseVolatility)
          /\ vol_range[Len(vol_range)] = ThreeHalvesBaseVolatility
          /\ EvenlySpaced(vol_range)
          /\ (conv.volatility_decimal >= (10 * Scale) \div 100
                => vol_range[1] = HalfBaseVolatility)
    /\ (pc = "tab2_loop" /\ calls # <<>>) =>
          /\ Len(calls) = 1
          /\ calls[1].fn = "calculate_option_greeks"
          /\ calls[1].volatility = vol_range[Len(curves.delta_vs_vol)]

\* C9 witness: the sweep of a 5 % base volatility, all 100 samples done:
\* it starts at 0.05, above half the base, and ends at 0.075.
C9_Witness ==
    /\ pc = "tab2_loop"
    /\ Len(curves.delta_vs_vol) = 100
    /\ inputs.volatility = 5 * Scale
    /\ vol_range[1] = (5 * Scale) \div 100
    /\ vol_range[1] > HalfBaseVolatility
    /\ vol_range[100] = (75 * Scale) \div 1000
    /\ calls[1].volatility = vol_range[100]

\* C10: the displayed intrinsic value is positive exactly when the status
\* shown (is_itm_atm_otm at its default threshold) is ITM; an option shown
\* ATM or OTM has no intrinsic value.
C10_IntrinsicValueIffItm ==
    pc # "base" =>
        (base.intrinsic_value > 0 <=> base.moneyness = "ITM")

\* The sample a loop has just used: the k-th of its range, k the length of
\* the list it appends to.
LastOf(samples, list) == samples[Len(list)]

\* A call's inputs other than the option type and the swept one are the
\* base values.
StrikeAndRatesAreBase(c) ==
    /\ c.strike = inputs.strike_price
    /\ c.risk_free_rate = conv.risk_free_rate_decimal
    /\ c.dividend_yield = conv.dividend_yield_decimal

\* A pass of one of the four loops has just run.
InSweep == pc \in {"tab0_loop", "tab1_loop", "tab2_loop", "tab3_loop"} /\ calls # <<>>

\* C11 as stated: every pass of a sweep makes one engine call, whose inputs
\* other than the swept one (the option type among them) are the base
\* values.
C11_OneCallPerSampleOnBaseInputs ==
    InSweep =>
        /\ Len(calls) = 1
        /\ calls[1].option_type = Lower(inputs.option_type)
        /\ StrikeAndRatesAreBase(calls[1])
        /\ pc \in {"tab0_loop", "tab1_loop"} =>
              /\ calls[1].time_to_expiry = conv.time_to_expiry
              /\ calls[1].volatility = conv.volatility_decimal
        /\ pc = "tab2_loop" =>
              /\ calls[1].spot = inputs.spot_price
              /\ calls[1].time_to_expiry = conv.time_to_expiry
        /\ pc = "tab3_loop" =>
              /\ calls[1].spot = inputs.spot_price
              /\ calls[1].volatility = conv.volatility_decimal

\* C11 amended: in every engine call of a sweep the numeric inputs other
\* than the swept one are the base values, and what a pass appends is the
\* engine's result on that pass's sample alone.  The Greeks sweeps (over
\* spot, volatility and time) make one calculate_option_greeks call per
\* sample, with the selected option type; the price sweep over spot makes
\* two calculate_option_price calls per sample, one as 'call' and one as
\* 'put', whatever option type is selected.
C11_SweepsVaryOneInput ==
    /\ (pc = "tab0_loop" /\ calls # <<>>) =>
          LET spot == LastOf(spot_range, curves.call_prices)
          IN  /\ Len(calls) = 2
              /\ Len(curves.put_prices) = Len(curves.call_prices)
              /\ calls[1].option_type = "call"
              /\ calls[2].option_type = "put"
              /\ \A k \in 1..2 :
                    /\ calls[k].fn = "calculate_option_price"
                    /\ calls[k].spot = spot
                    /\ calls[k].time_to_expiry = conv.time_to_expiry
                    /\ calls[k].volatility = conv.volatility_decimal
                    /\ StrikeAndRatesAreBase(calls[k])
              /\ curves.call_prices[Len(curves.call_prices)] =
                    calculate_option_price("call", spot, inputs.strike_price,
                        conv.time_to_expiry, conv.volatility_decimal,
                        conv.risk_free_rate_decimal, conv.dividend_yield_decimal)
              /\ curves.put_prices[Len(curves.put_prices)] =
                    calculate_option_price("put", spot, inputs.strike_price,
                        conv.time_to_expiry, conv.volatility_decimal,
                        conv.risk_free_rate_decimal, conv.dividend_yield_decimal)
    /\ (pc \in {"tab1_loop", "tab2_loop", "tab3_loop"} /\ calls # <<>>) =>
          LET n    == IF pc = "tab1_loop" THEN Len(curves.delta_values)
                      ELSE IF pc = "tab2_loop" THEN Len(curves.delta_vs_vol)
                      ELSE Len(curves.delta_vs_time)
              spot == IF pc = "tab1_loop" THEN spot_range[n] ELSE inputs.spot_price
              vol  == IF pc = "tab2_loop" THEN vol_range[n] ELSE conv.volatility_decimal
              t    == IF pc = "tab3_loop" THEN time_range[n] ELSE conv.time_to_expiry
              g    == calculate_option_greeks(Lower(inputs.option_type), spot,
                          inputs.strike_price, t, vol,
                          conv.risk_free_rate_decimal, conv.dividend_yield_decimal)
              got  == IF pc = "tab1_loop"
                      THEN <<curves.delta_values, curves.gamma_values,
                             curves.theta_values, curves.vega_values>>
                      ELSE IF pc = "tab2_loop"
                      THEN <<curves.delta_vs_vol, curves.gamma_vs_vol,
                             curves.theta_vs_vol, curves.vega_vs_vol>>
                      ELSE <<curves.delta_vs_time, curves.gamma_vs_time,
                             curves.theta_vs_time, curves.vega_vs_time>>
          IN  /\ Len(calls) = 1
              /\ calls[1].fn = "calculate_option_greeks"
              /\ calls[1].option_type = Lower(inputs.option_type)
              /\ calls[1].spot = spot
              /\ calls[1].volatility = vol
              /\ calls[1].time_to_expiry = t
              /\ StrikeAndRatesAreBase(calls[1])
              /\ \A k \in 1..4 : Len(got[k]) = n
              /\ got[1][n] = g.delta
              /\ got[2][n] = g.gamma
              /\ got[3][n] = g.theta
              /\ got[4][n] = g.vega

\* C11 witness: with Put selected, a pass of the price sweep has priced its
\* sample as a call and as a put, and the two prices differ.
C11_Witness ==
    /\ pc = "tab0_loop"
    /\ inputs.option_type = "Put"
    /\ Len(curves.call_prices) = 50
    /\ Len(calls) = 2
    /\ calls[1].option_type = "call"
    /\ calls[1].spot = spot_range[50]
    /\ calls[1].spot # inputs.spot_price
    /\ curves.call_prices[50] # curves.put_prices[50]

\* C12: for every combination of widget values, every engine call of the
\* script (the base calls and every sample of every sweep) has spot > 0,
\* strike > 0 and an option type that is exactly 'call' or 'put', and every
\* price and Greeks call has volatility > 0 and time_to_expiry > 0: neither
\* the expired branch nor the fall-through to the put is reached.
C12_CallsMeetPreconditions ==
    \A k \in DOMAIN calls :
        /\ calls[k].option_type \in {"call", "put"}
        /\ calls[k].spot > 0
        /\ calls[k].strike > 0
        /\ calls[k].fn \in {"calculate_option_price", "calculate_option_greeks"} =>
              /\ calls[k].volatility > 0
              /\ calls[k].time_to_expiry > 0

\* C12 witness: from the smallest spot, days and volatility the widgets
\* allow (1, 1 day, 1 %), the first sample of the time sweep is one day.
C12_Witness ==
    /\ pc = "tab3_loop"
    /\ inputs.spot_price = Dollars(1)
    /\ inputs.days_to_expiry = 1
    /\ inputs.volatility = 1 * Scale
    /\ Len(curves.delta_vs_time) = 1
    /\ Len(calls) = 1
    /\ calls[1].fn = "calculate_option_greeks"
    /\ calls[1].time_to_expiry = DivFix(1 * Scale, 365 * Scale)
    /\ calls[1].time_to_expiry > 0
    /\ calls[1].volatility = Scale \div 100

-----------------------------------------------------------------------------
(* Further properties of the engine, checked under Spec.                   *)

\* C13: for strike > 0 and threshold >= 0 the call's and the put's
\* classification of the same spot and strike mirror each other: ATM
\* together, and otherwise the call ITM exactly when the put is OTM and the
\* call OTM exactly when the put is ITM; never both ITM, never both OTM.
C13_CallPutMirror ==
    (IsMoneynessCall /\ args.option_type = "call") =>
        LET put == is_itm_atm_otm("put", args.spot, args.strike, call.threshold)
        IN  /\ call.result = "ATM" <=> put = "ATM"
            /\ call.result = "ITM" <=> put = "OTM"
            /\ call.result = "OTM" <=> put = "ITM"
            /\ ~(call.result = "ITM" /\ put = "ITM")
            /\ ~(call.result = "OTM" /\ put = "OTM")

\* C13 witness: at threshold 0, spot 99 against strike 100 is an OTM call
\* and an ITM put.
C13_Witness ==
    /\ IsMoneynessCall
    /\ args.option_type = "call"
    /\ args.spot = Dollars(99)
    /\ args.strike = Dollars(100)
    /\ call.threshold = 0
    /\ call.result = "OTM"
    /\ is_itm_atm_otm("put", args.spot, args.strike, call.threshold) = "ITM"

\* C14: with time_to_expiry <= 0 the call price and the put price are both
\* non-negative, their difference is exactly spot - strike, and at most one
\* of them is not 0.
C14_ExpiredParity ==
    (IsPriceCall /\ args.option_type = "call" /\ args.time_to_expiry <= 0) =>
        /\ call.result >= 0
        /\ PriceAs("put") >= 0
        /\ call.result - PriceAs("put") = args.spot - args.strike
        /\ call.result = 0 \/ PriceAs("put") = 0

\* C14 witness: expired with spot 90 below strike 100: the call is worth 0,
\* the put 10.
C14_Witness ==
    /\ IsPriceCall
    /\ args.option_type = "call"
    /\ args.time_to_expiry < 0
    /\ args.spot = Dollars(90)
    /\ args.strike = Dollars(100)
    /\ call.result = 0
    /\ PriceAs("put") = Dollars(10)

=============================================================================
